---- MODULE Spec2Model ----
(***************************************************************************)
(* Model of the WebUntis introspection scripts (examine_timetable,         *)
(* final_webuntis_test, test_timetable_absences, test_python_webuntis):    *)
(* configuration loading, the login / probe / logout run, and the record   *)
(* dump and status scan of the timetable probes.                           *)
(*                                                                         *)
(* Text is a sequence of tokens: " " and "\t" are whitespace, "#" and "="  *)
(* are the separator characters, every other token is a run of ordinary    *)
(* characters (a word).                                                    *)
(***************************************************************************)
EXTENDS Integers, Sequences, FiniteSets, TLC

VARIABLES
    script,           \* which of the four scripts this run executes
    pc,               \* position of the run
    environ,          \* os.environ: key text -> value text
    candidates,       \* the .env candidates in search order
    reqIdx,           \* which require_env call is next (1..4)
    creds,            \* server / school / username / password assigned so far
    fatal,            \* key named by the uncaught RuntimeError, or NoKey
    session,          \* "none", "created", "open", "closed"
    sessionsCreated,  \* webuntis.Session(...) constructions
    loginCalls,       \* .login() calls
    exitCalls,        \* calls of the session's __exit__ (logout)
    blk,              \* index of the current try block of the with-body
    call,             \* index of the current remote call inside that block
    invoked,          \* remote operations invoked so far, in order
    out,              \* console lines printed so far
    exc,              \* an exception is propagating out of the with statement
    my_tt,            \* the records handed to the dump and the scan
    start_date,       \* final_webuntis_test: start of the timetable window
    end_date,         \* final_webuntis_test: end of the timetable window
    environ0,         \* os.environ at process start
    outcomes,         \* how each remote call ended: <<probe, "returned" | "raised">>
    schoolyears       \* final_webuntis_test: what schoolyears() returned

vars == <<script, pc, environ, candidates, reqIdx, creds, fatal, session,
          sessionsCreated, loginCalls, exitCalls, blk, call, invoked, out,
          exc, my_tt, start_date, end_date, environ0, outcomes,
          schoolyears>>

(***************************************************************************)
(* Bounds of the model.                                                    *)
(***************************************************************************)
MaxLines == 2
MaxCandidates == 2
MaxRecords == 4

(***************************************************************************)
(* Text helpers.                                                           *)
(***************************************************************************)
IsSpace(c) == c \in {" ", "\t"}

RECURSIVE lstrip(_)
lstrip(s) == IF s # <<>> /\ IsSpace(Head(s)) THEN lstrip(Tail(s)) ELSE s

RECURSIVE rstrip(_)
rstrip(s) ==
    IF s # <<>> /\ IsSpace(s[Len(s)]) THEN rstrip(SubSeq(s, 1, Len(s) - 1)) ELSE s

strip(s) == rstrip(lstrip(s))

Contains(s, c) == \E i \in 1..Len(s) : s[i] = c

FirstIndex(s, c) == CHOOSE i \in 1..Len(s) : s[i] = c /\ \A j \in 1..(i - 1) : s[j] # c

\* str.replace(old, new) for a one-token old; new is a token sequence
RECURSIVE replace(_, _, _)
replace(s, old, new) ==
    IF s = <<>> THEN <<>>
    ELSE (IF Head(s) = old THEN new ELSE <<Head(s)>>) \o replace(Tail(s), old, new)

(***************************************************************************)
(* load_env and require_env.                                               *)
(***************************************************************************)
\* setdefault replaced by a plain assignment
setdefault_overwrite(env, key, value) ==
    [k \in DOMAIN env \cup {key} |-> IF k = key THEN value ELSE env[k]]

setdefault(env, key, value) ==
    IF key \in DOMAIN env THEN env
    ELSE [k \in DOMAIN env \cup {key} |-> IF k = key THEN value ELSE env[k]]

apply_line(env, raw_line) ==
    LET line == strip(raw_line) IN
    IF line = <<>> \/ line[1] = "#" THEN env
    ELSE IF ~Contains(line, "=") THEN env
    ELSE LET i == FirstIndex(line, "=")
             key == SubSeq(line, 1, i - 1)
             value == SubSeq(line, i + 1, Len(line))
         IN setdefault(env, strip(key), strip(value))

RECURSIVE read_lines(_, _)
read_lines(env, lines) ==
    IF lines = <<>> THEN env
    ELSE read_lines(apply_line(env, Head(lines)), Tail(lines))

\* a candidate is [exists |-> BOOLEAN, lines |-> sequence of lines]
RECURSIVE load_env(_, _)
load_env(env, cands) ==
    IF cands = <<>> THEN env
    ELSE IF Head(cands).exists THEN read_lines(env, Head(cands).lines)
    ELSE load_env(env, Tail(cands))

\* require_env without the .strip(): a whitespace-only value is accepted
require_env_unstripped(env, key) ==
    LET value == IF key \in DOMAIN env THEN env[key] ELSE <<>> IN
    IF value = <<>> THEN [ok |-> FALSE, value |-> <<>>]
    ELSE [ok |-> TRUE, value |-> value]

\* [ok |-> FALSE] when the RuntimeError naming key is raised
require_env(env, key) ==
    LET value == strip(IF key \in DOMAIN env THEN env[key] ELSE <<>>) IN
    IF value = <<>> THEN [ok |-> FALSE, value |-> <<>>]
    ELSE [ok |-> TRUE, value |-> value]

ReqKeys == << <<"UNTIS_BASE_SERVER">>, <<"UNTIS_SCHOOL">>,
              <<"UNTIS_USERNAME">>, <<"UNTIS_PASSWORD">> >>

NoKey == <<>>

\* the module-level post-processing of each required value
credential(i, value) ==
    IF i = 1 THEN replace(replace(value, "https://", <<>>), "http://", <<>>)
    ELSE IF i = 2 THEN replace(value, " ", <<"+">>)
    ELSE value

(***************************************************************************)
(* Records returned by the remote service.  A record maps every name of    *)
(* FieldNames to a cell: kind "absent" (no such attribute: access raises   *)
(* AttributeError and dir() does not list it), "raises_attr" (listed, but  *)
(* access raises AttributeError), "raises" (listed, access raises another  *)
(* exception) or "value" (access returns val).                             *)
(***************************************************************************)
FieldNames == {"_data", "absence", "activityType", "cancelled", "code", "date",
               "end_date", "endtime", "id", "is_current", "keys", "klassen",
               "lstext", "rooms", "start_date", "starttime", "statflags", "status",
               "subjects", "substituted", "teachers"}

\* sorted(FieldNames), the order dir() lists them in
DirOrder == <<"_data", "absence", "activityType", "cancelled", "code", "date",
              "end_date", "endtime", "id", "is_current", "keys", "klassen",
              "lstext", "rooms", "start_date", "starttime", "statflags", "status",
              "subjects", "substituted", "teachers">>

Absent == [kind |-> "absent", val |-> <<>>]
Raises == [kind |-> "raises", val |-> <<>>]
RaisesAttr == [kind |-> "raises_attr", val |-> <<>>]
Val(v) == [kind |-> "value", val |-> v]

\* attr.startswith('_')
IsPrivate(attr) == attr \in {"_data"}

\* dir(period)
dir(period) == SelectSeq(DirOrder, LAMBDA a : period[a].kind # "absent")

\* hasattr(period, attr) is False on AttributeError only; any other
\* exception of the access leaves hasattr
hasattr(period, attr) == period[attr].kind = "value"
access_raises(period, attr) == period[attr].kind = "raises"

\* bool(value) of a text value
truthy(value) == value # <<>>

\* one console line
Line(k, probe, rec, attr, val, n) ==
    [k |-> k, probe |-> probe, rec |-> rec, attr |-> attr, val |-> val, n |-> n]

Min(a, b) == IF a < b THEN a ELSE b

\* s[:n] with the limit dropped
slice_all(s, n) == s

\* s[:n]
slice(s, n) == SubSeq(s, 1, Min(n, Len(s)))

(***************************************************************************)
(* examine_timetable: the attribute dump of the first periods and the      *)
(* status scan over all periods.                                           *)
(***************************************************************************)
DumpLimit == 3

RECURSIVE dump_attrs(_, _, _)
dump_attrs(period, i, attrs) ==
    IF attrs = <<>> THEN <<>>
    ELSE LET attr == Head(attrs)
             line == IF IsPrivate(attr) THEN <<>>
                     ELSE IF period[attr].kind = "value"
                          THEN <<Line("attr", "my_timetable", i, attr, period[attr].val, 0)>>
                          ELSE <<Line("cannot_access", "my_timetable", i, attr, <<>>, 0)>>
         IN line \o dump_attrs(period, i, Tail(attrs))

RECURSIVE dump_periods(_, _)
dump_periods(periods, i) ==
    IF i > Len(periods) THEN <<>>
    ELSE <<Line("period", "my_timetable", i, "", <<>>, 0)>>
         \o dump_attrs(periods[i], i, dir(periods[i]))
         \o dump_periods(periods, i + 1)

examine_dump(tt) == dump_periods(slice(tt, DumpLimit), 1)

ScanAttrs == <<"status", "lstext", "activityType", "code", "cancelled", "substituted">>

\* the membership test with the operands the other way round:
\* attr.lower() in word
LowerContains_any(word, attr) == TRUE

\* word in attr.lower(), for the attribute names of ScanAttrs
LowerContains(word, attr) == <<word, attr>> \in {<<"status", "status">>, <<"code", "code">>}

ScanStart == [lines |-> <<>>, raised |-> FALSE, status_found |-> <<>>, code_found |-> <<>>]

RECURSIVE scan_attrs(_, _, _, _)
scan_attrs(period, i, attrs, acc) ==
    IF attrs = <<>> \/ acc.raised THEN acc
    ELSE LET attr == Head(attrs) IN
         IF access_raises(period, attr) THEN [acc EXCEPT !.raised = TRUE]
         ELSE IF ~hasattr(period, attr) THEN scan_attrs(period, i, Tail(attrs), acc)
         ELSE LET value == period[attr].val IN
              IF truthy(value) /\ strip(value) # <<>>
              THEN scan_attrs(period, i, Tail(attrs),
                     [acc EXCEPT
                        !.lines = Append(@, Line("scan", "my_timetable", i, attr, value, 0)),
                        !.status_found =
                            IF LowerContains("status", attr) THEN Append(@, <<i, value>>) ELSE @,
                        !.code_found =
                            IF ~LowerContains("status", attr) /\ LowerContains("code", attr)
                            THEN Append(@, <<i, value>>) ELSE @])
              ELSE scan_attrs(period, i, Tail(attrs), acc)

RECURSIVE scan_periods(_, _, _)
scan_periods(tt, i, acc) ==
    IF i > Len(tt) \/ acc.raised THEN acc
    ELSE scan_periods(tt, i + 1, scan_attrs(tt[i], i, ScanAttrs, acc))

examine_scan(tt) == scan_periods(tt, 1, ScanStart)

\* the lines of the try block of my_timetable after the call returned, and
\* whether an exception left the block
examine_report(tt) ==
    LET count == <<Line("count", "my_timetable", 0, "", <<>>, Len(tt))>>
        scan == examine_scan(tt)
    IN IF ~truthy(tt) THEN [lines |-> count, raised |-> FALSE]
       ELSE IF scan.raised
       THEN [lines |-> count \o examine_dump(tt) \o scan.lines
                       \o <<Line("err", "my_timetable", 0, "", <<>>, 0)>>,
             raised |-> TRUE]
       ELSE [lines |-> count \o examine_dump(tt) \o scan.lines
                       \o <<Line("summary_status", "my_timetable", 0, "", <<>>, Len(scan.status_found)),
                            Line("summary_codes", "my_timetable", 0, "", <<>>, Len(scan.code_found))>>,
             raised |-> FALSE]

(***************************************************************************)
(* final_webuntis_test: the dump of the first period and the scan.         *)
(***************************************************************************)
FinalAttrs == <<"id", "date", "starttime", "endtime", "klassen", "teachers", "subjects",
                "rooms", "lstext", "statflags", "activityType", "code">>

FlagAttrs == <<"statflags", "code", "lstext", "activityType">>

RECURSIVE final_dump(_, _, _)
final_dump(period, attrs, acc) ==
    IF attrs = <<>> \/ acc.raised THEN acc
    ELSE LET attr == Head(attrs) IN
         IF access_raises(period, attr) THEN [acc EXCEPT !.raised = TRUE]
         ELSE IF hasattr(period, attr)
         THEN final_dump(period, Tail(attrs),
                [acc EXCEPT !.lines = Append(@, Line("attr", "my_timetable", 1, attr, period[attr].val, 0))])
         ELSE final_dump(period, Tail(attrs), acc)

\* flags of one period: [flags, raised]
RECURSIVE period_flags(_, _, _)
period_flags(period, attrs, acc) ==
    IF attrs = <<>> \/ acc.raised THEN acc
    ELSE LET attr == Head(attrs) IN
         IF access_raises(period, attr) THEN [acc EXCEPT !.raised = TRUE]
         ELSE IF hasattr(period, attr) /\ truthy(period[attr].val)
         THEN period_flags(period, Tail(attrs), [acc EXCEPT !.flags = Append(@, attr)])
         ELSE period_flags(period, Tail(attrs), acc)

\* interesting_periods: [found, raised]
RECURSIVE final_scan(_, _, _)
final_scan(tt, i, acc) ==
    IF i > Len(tt) \/ acc.raised THEN acc
    ELSE LET f == period_flags(tt[i], FlagAttrs, [flags |-> <<>>, raised |-> FALSE]) IN
         IF f.raised THEN [acc EXCEPT !.raised = TRUE]
         ELSE IF truthy(f.flags)
         THEN final_scan(tt, i + 1, [acc EXCEPT !.found = Append(@, <<i, f.flags>>)])
         ELSE final_scan(tt, i + 1, acc)

RECURSIVE flag_lines(_)
flag_lines(found) ==
    IF found = <<>> THEN <<>>
    ELSE <<Line("flags", "my_timetable", Head(found)[1], "", Head(found)[2], 0)>>
         \o flag_lines(Tail(found))

final_report(tt) ==
    LET count == <<Line("count", "my_timetable", 0, "", <<>>, Len(tt))>>
        failed == <<Line("err", "my_timetable", 0, "", <<>>, 0)>>
        dump == final_dump(tt[1], FinalAttrs, [lines |-> <<>>, raised |-> FALSE])
        scan == final_scan(tt, 1, [found |-> <<>>, raised |-> FALSE])
    IN IF ~truthy(tt) THEN [lines |-> count, raised |-> FALSE]
       ELSE IF dump.raised
       THEN [lines |-> count \o dump.lines \o failed, raised |-> TRUE]
       ELSE IF scan.raised
       THEN [lines |-> count \o dump.lines \o failed, raised |-> TRUE]
       ELSE [lines |-> count \o dump.lines
                       \o <<Line("found", "my_timetable", 0, "", <<>>, Len(scan.found))>>
                       \o flag_lines(scan.found),
             raised |-> FALSE]

(***************************************************************************)
(* test_timetable_absences: the sample print of the first period.          *)
(***************************************************************************)
absences_report(tt) ==
    LET count == <<Line("count", "my_timetable", 0, "", <<>>, Len(tt))>> IN
    IF ~truthy(tt) THEN [lines |-> count, raised |-> FALSE]
    ELSE IF tt[1]["keys"].kind # "value"
    THEN [lines |-> count \o <<Line("err", "my_timetable", 0, "", <<>>, 0)>>, raised |-> TRUE]
    ELSE [lines |-> count \o <<Line("sample_keys", "my_timetable", 1, "", <<>>, 0),
                               Line("sample", "my_timetable", 1, "", <<>>, 0)>>,
          raised |-> FALSE]

(***************************************************************************)
(* The with-body of each script: a sequence of try blocks, each a sequence *)
(* of remote calls.  An exception inside a block is caught by the block's  *)
(* except clause, which prints the error; the run goes on with the next    *)
(* block.                                                                  *)
(***************************************************************************)
Scripts == {"examine_timetable", "final_webuntis_test",
            "test_timetable_absences", "test_python_webuntis"}

Blocks(s) ==
    CASE s = "examine_timetable" ->
           << <<"my_timetable">>, <<"timetable_extended">>, <<"substitutions">> >>
      [] s = "final_webuntis_test" ->
           << <<"schoolyears">>, <<"my_timetable">>, <<"klassen">>, <<"subjects">>,
              <<"rooms">>, <<"holidays">>, <<"timegrid_units">> >>
      [] s = "test_timetable_absences" ->
           << <<"my_timetable">>, <<"students", "timetable_with_absences">>, <<"exams">> >>
      [] s = "test_python_webuntis" ->
           << <<"klassen">>, <<"subjects">>, <<"teachers">>, <<"rooms">>, <<"timetable">>,
              <<"own_absences">>, <<"absences">>, <<"exams">>, <<"own_exams">> >>

\* the probes whose block prints the first returned item
SampleProbes(s) ==
    CASE s = "examine_timetable" -> {"substitutions"}
      [] s = "final_webuntis_test" -> {}
      [] s = "test_timetable_absences" -> {"exams"}
      [] s = "test_python_webuntis" -> {"own_absences", "absences", "exams", "own_exams"}

\* the probes whose block tells AttributeError apart from other exceptions
AttrErrorProbes(s) ==
    IF s = "test_python_webuntis"
    THEN {"own_absences", "absences", "exams", "own_exams"}
    ELSE {}

\* str(p).lower() mentions 'absence' or 'absent'
MentionsAbsence(p) ==
    \E f \in FieldNames : p[f].kind = "value"
                          /\ (Contains(p[f].val, "absence") \/ Contains(p[f].val, "absent"))

StatusKeys == {"status", "code", "absence", "cancelled", "substituted"}

\* period.keys() / period.items() need a dict-like record
DictLike(p) == p["keys"].kind = "value"
DictKeys(p) == {f \in FieldNames : f # "keys" /\ p[f].kind # "absent"}

RECURSIVE item_lines(_, _)
item_lines(p, attrs) ==
    IF attrs = <<>> THEN <<>>
    ELSE (IF Head(attrs) \in DictKeys(p)
          THEN <<Line("sample_item", "timetable_with_absences", 1, Head(attrs), p[Head(attrs)].val, 0)>>
          ELSE <<>>) \o item_lines(p, Tail(attrs))

\* [lines, raised] of the loop over tt_abs[:5]
RECURSIVE status_info(_, _, _)
status_info(tt, i, acc) ==
    IF i > Len(tt) \/ acc.raised THEN acc
    ELSE IF ~DictLike(tt[i]) THEN [acc EXCEPT !.raised = TRUE]
    ELSE IF DictKeys(tt[i]) \cap StatusKeys # {}
    THEN status_info(tt, i + 1,
           [acc EXCEPT !.lines = Append(@, Line("status_info", "timetable_with_absences", i, "", <<>>, 0))])
    ELSE status_info(tt, i + 1, acc)

StatusInfoLimit == 5

with_absences_report(tt) ==
    LET head == <<Line("count", "timetable_with_absences", 0, "", <<>>, Len(tt)),
                  Line("mentions", "timetable_with_absences", 0, "", <<>>,
                       Cardinality({i \in 1..Len(tt) : MentionsAbsence(tt[i])}))>>
        failed == <<Line("err", "timetable_with_absences", 0, "", <<>>, 0)>>
        info == status_info(slice(tt, StatusInfoLimit), 1, [lines |-> <<>>, raised |-> FALSE])
    IN IF ~truthy(tt) THEN [lines |-> head, raised |-> FALSE]
       ELSE IF ~DictLike(tt[1]) THEN [lines |-> head \o failed, raised |-> TRUE]
       ELSE IF info.raised
       THEN [lines |-> head \o item_lines(tt[1], DirOrder) \o info.lines \o failed, raised |-> TRUE]
       ELSE [lines |-> head \o item_lines(tt[1], DirOrder) \o info.lines, raised |-> FALSE]

\* students(): the id of the first student decides whether
\* timetable_with_absences is called at all
students_report(students) ==
    IF ~truthy(students) THEN [lines |-> <<>>, raised |-> FALSE, cont |-> FALSE]
    ELSE IF students[1]["id"].kind # "value"
    THEN [lines |-> <<Line("err", "students", 0, "", <<>>, 0)>>, raised |-> TRUE, cont |-> FALSE]
    ELSE [lines |-> <<Line("student_id", "students", 1, "id", students[1]["id"].val, 0)>>,
          raised |-> FALSE, cont |-> TRUE]

(***************************************************************************)
(* final_webuntis_test: the date window taken from schoolyears().          *)
(***************************************************************************)
Undefined == "undefined"
Today == "today"
TodayPlus7 == "today+7"

ValidDateWords == {"2023-09-01", "2024-07-31", "2024-09-01", "2025-07-31"}

\* datetime.strptime(text, '%Y-%m-%d') raises ValueError unless text is a date
strptime_ok(text) == Len(text) = 1 /\ text[1] \in ValidDateWords

\* y.get('is_current', False) is truthy
is_current(y) == y["is_current"].kind = "value" /\ truthy(y["is_current"].val)

current_year(years) == SelectSeq(years, is_current)

\* strptime(y[key], '%Y-%m-%d'): a missing key and an unparsable text raise
date_ok(y, key) == y[key].kind = "value" /\ strptime_ok(y[key].val)

\* The body of the try block after schoolyears() returned years, statement by
\* statement, from the dates sd0 and ed0 before it: start_date is assigned as
\* soon as it parses, end_date after it, and an error leaves what was
\* assigned so far
schoolyears_try(years, sd0, ed0) ==
    LET cur == current_year(years)
        y == cur[1]
        shown == <<Line("current_year", "schoolyears", 1, "", <<>>, 0)>>
    IN IF ~truthy(cur)
       THEN [lines |-> <<Line("no_current_year", "schoolyears", 0, "", <<>>, 0)>>,
             start_date |-> Today, end_date |-> TodayPlus7, raised |-> FALSE]
       ELSE IF ~date_ok(y, "start_date")
       THEN [lines |-> shown, start_date |-> sd0, end_date |-> ed0, raised |-> TRUE]
       ELSE IF ~date_ok(y, "end_date")
       THEN [lines |-> shown, start_date |-> y["start_date"].val[1],
             end_date |-> ed0, raised |-> TRUE]
       ELSE [lines |-> shown \o <<Line("range", "schoolyears", 1, "", <<>>, 0)>>,
             start_date |-> y["start_date"].val[1],
             end_date |-> y["end_date"].val[1], raised |-> FALSE]

\* schoolyears_except that keeps a start_date the try block already assigned
schoolyears_except_keep(sd, ed) ==
    [lines |-> <<Line("err", "schoolyears", 0, "", <<>>, 0)>>,
     start_date |-> IF sd = Undefined THEN Today ELSE sd,
     end_date |-> TodayPlus7]

\* The except clause of the block, entered with the dates sd and ed assigned
\* so far: it prints the error and assigns both dates anew
schoolyears_except(sd, ed) ==
    [lines |-> <<Line("err", "schoolyears", 0, "", <<>>, 0)>>,
     start_date |-> Today, end_date |-> TodayPlus7]

\* [lines, start_date, end_date] after the try / except of schoolyears; sd0
\* and ed0 are the dates before it
schoolyears_report(years, sd0, ed0) ==
    LET t == schoolyears_try(years, sd0, ed0)
        e == schoolyears_except(t.start_date, t.end_date)
    IN IF t.raised
       THEN [lines |-> t.lines \o e.lines, start_date |-> e.start_date,
             end_date |-> e.end_date]
       ELSE [lines |-> t.lines, start_date |-> t.start_date, end_date |-> t.end_date]

(***************************************************************************)
(* What a block prints after the call of probe returned result:            *)
(* [lines, raised, cont]; raised: an exception left the block after the    *)
(* call returned; cont: the block goes on to its next call.                *)
(***************************************************************************)
Plain(r) == [lines |-> r.lines, raised |-> r.raised, cont |-> TRUE]

count_report(s, probe, result) ==
    LET count == <<Line("count", probe, 0, "", <<>>, Len(result))>> IN
    IF probe \in SampleProbes(s) /\ truthy(result)
    THEN [lines |-> count \o <<Line("sample", probe, 1, "", <<>>, 0)>>, raised |-> FALSE, cont |-> TRUE]
    ELSE [lines |-> count, raised |-> FALSE, cont |-> TRUE]

report(s, probe, result) ==
    IF probe = "my_timetable" /\ s = "examine_timetable" THEN Plain(examine_report(result))
    ELSE IF probe = "my_timetable" /\ s = "final_webuntis_test" THEN Plain(final_report(result))
    ELSE IF probe = "my_timetable" /\ s = "test_timetable_absences" THEN Plain(absences_report(result))
    ELSE IF probe = "students" THEN students_report(result)
    ELSE IF probe = "timetable_with_absences" THEN Plain(with_absences_report(result))
    ELSE count_report(s, probe, result)

\* the line the except clause prints when the call itself raised
raise_line(s, probe, kind) ==
    IF probe \in AttrErrorProbes(s) /\ kind = "AttributeError"
    THEN Line("unavailable", probe, 0, "", <<>>, 0)
    ELSE Line("err", probe, 0, "", <<>>, 0)

(***************************************************************************)
(* Inputs of the run: environments, .env candidates and remote results.    *)
(***************************************************************************)
Rec(S) == [f \in FieldNames |-> IF f \in DOMAIN S THEN S[f] ELSE Absent]

Item == Rec("id" :> Val(<<"7">>))
Student == Rec("id" :> Val(<<"42">>) @@ "keys" :> Val(<<"fn">>))
StudentNoId == Rec("keys" :> Val(<<"fn">>))
PeriodDict == Rec("id" :> Val(<<"1">>) @@ "keys" :> Val(<<"fn">>) @@ "lstext" :> Val(<<"absent">>))
PeriodObject == Rec("id" :> Val(<<"2">>) @@ "code" :> Raises @@ "status" :> Val(<<"x">>))
YearOk == Rec("is_current" :> Val(<<"True">>) @@ "start_date" :> Val(<<"2024-09-01">>)
              @@ "end_date" :> Val(<<"2025-07-31">>))
YearBadEnd == Rec("is_current" :> Val(<<"True">>) @@ "start_date" :> Val(<<"2024-09-01">>)
                  @@ "end_date" :> Val(<<"31.07.2025">>))
YearNoStart == Rec("is_current" :> Val(<<"True">>) @@ "end_date" :> Val(<<"2025-07-31">>))
YearPast == Rec("start_date" :> Val(<<"2023-09-01">>) @@ "end_date" :> Val(<<"2024-07-31">>))

Results(s, probe) ==
    IF probe \in {"my_timetable", "timetable_with_absences"}
    THEN {<<>>, <<PeriodDict>>, <<PeriodObject>>}
    ELSE IF probe = "students" THEN {<<>>, <<Student>>, <<StudentNoId>>}
    ELSE IF probe = "schoolyears" THEN {<<>>, <<YearOk>>, <<YearBadEnd>>, <<YearNoStart>>, <<YearPast>>,
                                             <<YearPast, YearOk>>}
    ELSE IF probe \in SampleProbes(s) THEN {<<>>, <<Item>>}
    ELSE {<<Item, Item>>}

RaiseKinds == {"AttributeError", "Exception"}

SetValue(i) ==
    IF i = 1 THEN <<"https://", "host">>
    ELSE IF i = 2 THEN <<"my", " ", "school">>
    ELSE <<"v">>

EnvOf(c) ==
    [k \in {ReqKeys[i] : i \in {j \in 1..Len(ReqKeys) : c[j] # "absent"}} |->
        LET i == CHOOSE j \in 1..Len(ReqKeys) : ReqKeys[j] = k IN
        IF c[i] = "empty" THEN <<>>
        ELSE IF c[i] = "blank" THEN <<" ", "\t">>
        ELSE SetValue(i)]

MainEnvs == {EnvOf(c) : c \in [1..Len(ReqKeys) -> {"absent", "empty", "blank", "set"}]}

Candidate(lines) == [exists |-> TRUE, lines |-> lines]
Missing == [exists |-> FALSE, lines |-> <<>>]

MainCandidates ==
    { <<>>,
      <<Missing, Candidate(<< <<"#", "credentials">>,
                               <<"UNTIS_PASSWORD", " ", "=", " ", "pw">> >>)>> }

(***************************************************************************)
(* The run.                                                                *)
(***************************************************************************)
Init ==
    /\ script \in Scripts
    /\ pc = "load_env"
    /\ environ \in MainEnvs
    /\ environ0 = environ
    /\ candidates \in MainCandidates
    /\ reqIdx = 1
    /\ creds = <<>>
    /\ fatal = NoKey
    /\ session = "none"
    /\ sessionsCreated = 0
    /\ loginCalls = 0
    /\ exitCalls = 0
    /\ blk = 1
    /\ call = 1
    /\ invoked = <<>>
    /\ out = <<>>
    /\ exc = FALSE
    /\ my_tt = <<>>
    /\ start_date = Undefined
    /\ end_date = Undefined
    /\ outcomes = <<>>
    /\ schoolyears = <<>>

CurrentProbe == Blocks(script)[blk][call]

\* in outcomes: a statement of the with-body outside every try block
Statement == "<statement>"

\* load_env()
LoadEnv ==
    /\ pc = "load_env"
    /\ environ' = load_env(environ, candidates)
    /\ pc' = "require_env"
    /\ UNCHANGED <<script, candidates, reqIdx, creds, fatal, session, sessionsCreated,
                   loginCalls, exitCalls, blk, call, invoked, out, exc, my_tt,
                   start_date, end_date, environ0, outcomes,
                   schoolyears>>

\* one of the four module-level require_env(...) assignments; the
\* RuntimeError is not caught and ends the process
RequireEnv ==
    /\ pc = "require_env"
    /\ LET r == require_env(environ, ReqKeys[reqIdx]) IN
       IF ~r.ok
       THEN /\ fatal' = ReqKeys[reqIdx]
            /\ pc' = "fatal"
            /\ UNCHANGED <<creds, reqIdx>>
       ELSE /\ creds' = Append(creds, credential(reqIdx, r.value))
            /\ fatal' = fatal
            /\ IF reqIdx = Len(ReqKeys)
               THEN pc' = "login" /\ reqIdx' = reqIdx
               ELSE pc' = pc /\ reqIdx' = reqIdx + 1
    /\ UNCHANGED <<script, environ, candidates, session, sessionsCreated, loginCalls,
                   exitCalls, blk, call, invoked, out, exc, my_tt, start_date,
                   end_date, environ0, outcomes,
                   schoolyears>>

\* webuntis.Session(...).login(): the session object is built and the
\* login request sent
LoginCall ==
    /\ pc = "login"
    /\ session' = "created"
    /\ sessionsCreated' = sessionsCreated + 1
    /\ loginCalls' = loginCalls + 1
    /\ pc' = "logging_in"
    /\ UNCHANGED <<script, environ, candidates, reqIdx, creds, fatal, exitCalls, blk,
                   call, invoked, out, exc, my_tt, start_date, end_date, environ0,
                   outcomes,
                   schoolyears>>

\* login() returned: __enter__, the with-body starts
LoginReturn ==
    /\ pc = "logging_in"
    /\ session' = "open"
    /\ out' = Append(out, Line("logged_in", "login", 0, "", <<>>, 0))
    /\ pc' = "body"
    /\ UNCHANGED <<script, environ, candidates, reqIdx, creds, fatal, sessionsCreated,
                   loginCalls, exitCalls, blk, call, invoked, exc, my_tt, start_date,
                   end_date, environ0, outcomes,
                   schoolyears>>

\* LoginRaise had the session been released in a finally clause
LoginRaise_release ==
    /\ pc = "logging_in"
    /\ exc' = TRUE
    /\ pc' = "exit"
    /\ UNCHANGED <<script, environ, candidates, reqIdx, creds, fatal, session,
                   sessionsCreated, loginCalls, exitCalls, blk, call, invoked, out,
                   my_tt, start_date, end_date, environ0, outcomes,
                   schoolyears>>

\* LoginRaise had the failure been swallowed and the body run anyway
LoginRaise_ignore ==
    /\ pc = "logging_in"
    /\ pc' = "body"
    /\ UNCHANGED <<script, environ, candidates, reqIdx, creds, fatal, session,
                   sessionsCreated, loginCalls, exitCalls, blk, call, invoked, out,
                   exc, my_tt, start_date, end_date, environ0, outcomes,
          schoolyears,
                   schoolyears>>

\* login() raised: the with statement is never entered, so __exit__ is not
\* called; the exception goes to the top-level except clause
LoginRaise ==
    /\ pc = "logging_in"
    /\ exc' = TRUE
    /\ pc' = "handler"
    /\ UNCHANGED <<script, environ, candidates, reqIdx, creds, fatal, session,
                   sessionsCreated, loginCalls, exitCalls, blk, call, invoked, out,
                   my_tt, start_date, end_date, environ0, outcomes,
                   schoolyears>>

\* the next remote call of the with-body is sent
ProbeCall ==
    /\ pc = "body"
    /\ blk <= Len(Blocks(script))
    /\ invoked' = Append(invoked, CurrentProbe)
    /\ pc' = "probing"
    /\ UNCHANGED <<script, environ, candidates, reqIdx, creds, fatal, session,
                   sessionsCreated, loginCalls, exitCalls, blk, call, out, exc, my_tt,
                   start_date, end_date, environ0, outcomes,
                   schoolyears>>

\* position after a call of the current block: the block's next call, or
\* the next block
next_blk(stay) == IF stay /\ call < Len(Blocks(script)[blk]) THEN blk ELSE blk + 1
next_call(stay) == IF stay /\ call < Len(Blocks(script)[blk]) THEN call + 1 ELSE 1

\* the call returned; the rest of the try block runs
ProbeReturn ==
    /\ pc = "probing"
    /\ \E result \in Results(script, CurrentProbe) :
         IF CurrentProbe = "schoolyears"
         THEN LET r == schoolyears_report(result, start_date, end_date) IN
              /\ out' = out \o r.lines
              /\ start_date' = r.start_date
              /\ end_date' = r.end_date
              /\ blk' = next_blk(TRUE)
              /\ call' = next_call(TRUE)
              /\ my_tt' = my_tt
              /\ schoolyears' = result
         ELSE LET r == report(script, CurrentProbe, result) IN
              /\ out' = out \o r.lines
              /\ blk' = next_blk(~r.raised /\ r.cont)
              /\ call' = next_call(~r.raised /\ r.cont)
              /\ my_tt' = IF CurrentProbe = "my_timetable" THEN result ELSE my_tt
              /\ UNCHANGED <<start_date, end_date, schoolyears>>
    /\ pc' = "body"
    /\ outcomes' = Append(outcomes, <<CurrentProbe, "returned">>)
    /\ UNCHANGED <<script, environ, candidates, reqIdx, creds, fatal, session,
                   sessionsCreated, loginCalls, exitCalls, invoked, exc, environ0>>

\* ProbeRaise without the block's try / except: the error ends the body
ProbeRaise_abort ==
    /\ pc = "probing"
    /\ exc' = TRUE
    /\ pc' = "exit"
    /\ outcomes' = Append(outcomes, <<CurrentProbe, "raised">>)
    /\ UNCHANGED <<script, environ, candidates, reqIdx, creds, fatal, session,
                   sessionsCreated, loginCalls, exitCalls, blk, call, invoked, out,
                   my_tt, start_date, end_date, environ0,
                   schoolyears>>

\* ProbeRaise with an except clause that waits and never goes on
ProbeRaise_hang ==
    /\ pc = "probing"
    /\ \E kind \in RaiseKinds :
         out' = Append(out, raise_line(script, CurrentProbe, kind))
    /\ pc' = "waiting"
    /\ outcomes' = Append(outcomes, <<CurrentProbe, "raised">>)
    /\ UNCHANGED <<script, environ, candidates, reqIdx, creds, fatal, session,
                   sessionsCreated, loginCalls, exitCalls, blk, call, invoked, exc,
                   my_tt, start_date, end_date, environ0,
                   schoolyears>>

\* the call raised; the except clause of its block prints the error
ProbeRaise ==
    /\ pc = "probing"
    /\ \E kind \in RaiseKinds :
         out' = Append(out, raise_line(script, CurrentProbe, kind))
    /\ IF CurrentProbe = "schoolyears"
       THEN LET e == schoolyears_except(start_date, end_date) IN
            start_date' = e.start_date /\ end_date' = e.end_date
       ELSE UNCHANGED <<start_date, end_date>>
    /\ blk' = next_blk(FALSE)
    /\ call' = next_call(FALSE)
    /\ pc' = "body"
    /\ outcomes' = Append(outcomes, <<CurrentProbe, "raised">>)
    /\ UNCHANGED <<script, environ, candidates, reqIdx, creds, fatal, session,
                   sessionsCreated, loginCalls, exitCalls, invoked, exc, my_tt, environ0,
                   schoolyears>>

\* the statements after the last block; the with-body ends normally
BodyEnd ==
    /\ pc = "body"
    /\ blk > Len(Blocks(script))
    /\ out' = IF script = "test_python_webuntis"
              THEN Append(out, Line("methods", "dir", 0, "", <<>>, 0))
              ELSE out
    /\ pc' = "exit"
    /\ UNCHANGED <<script, environ, candidates, reqIdx, creds, fatal, session,
                   sessionsCreated, loginCalls, exitCalls, blk, call, invoked, exc,
                   my_tt, start_date, end_date, environ0, outcomes,
                   schoolyears>>

\* a statement outside every try block of the with-body raises
BodyRaise ==
    /\ pc = "body"
    /\ exc' = TRUE
    /\ pc' = "exit"
    /\ outcomes' = Append(outcomes, <<Statement, "raised">>)
    /\ UNCHANGED <<script, environ, candidates, reqIdx, creds, fatal, session,
                   sessionsCreated, loginCalls, exitCalls, blk, call, invoked, out,
                   my_tt, start_date, end_date, environ0,
                   schoolyears>>

\* WithExit had the session been closed by hand at the end of the body
\* only: an exception skips the logout
WithExit_leak ==
    /\ pc = "exit"
    /\ exitCalls' = IF exc THEN exitCalls ELSE exitCalls + 1
    /\ session' = IF exc THEN session ELSE "closed"
    /\ pc' = IF exc THEN "handler" ELSE "done"
    /\ UNCHANGED <<script, environ, candidates, reqIdx, creds, fatal, sessionsCreated,
                   loginCalls, blk, call, invoked, out, exc, my_tt, start_date,
                   end_date, environ0, outcomes,
                   schoolyears>>

\* leaving the with statement: the session's __exit__ logs out
WithExit ==
    /\ pc = "exit"
    /\ exitCalls' = exitCalls + 1
    /\ session' = "closed"
    /\ pc' = IF exc THEN "handler" ELSE "done"
    /\ UNCHANGED <<script, environ, candidates, reqIdx, creds, fatal, sessionsCreated,
                   loginCalls, blk, call, invoked, out, exc, my_tt, start_date,
                   end_date, environ0, outcomes,
                   schoolyears>>

\* the top-level except clause
Handler ==
    /\ pc = "handler"
    /\ out' = Append(out, Line("connection_failed", "", 0, "", <<>>, 0))
    /\ pc' = "done"
    /\ UNCHANGED <<script, environ, candidates, reqIdx, creds, fatal, session,
                   sessionsCreated, loginCalls, exitCalls, blk, call, invoked, exc,
                   my_tt, start_date, end_date, environ0, outcomes,
                   schoolyears>>

Next ==
    \/ LoadEnv
    \/ RequireEnv
    \/ LoginCall
    \/ LoginReturn
    \/ LoginRaise
    \/ ProbeCall
    \/ ProbeReturn
    \/ ProbeRaise
    \/ BodyEnd
    \/ BodyRaise
    \/ WithExit
    \/ Handler

Spec == Init /\ [][Next]_vars

(***************************************************************************)
(* Configuration loading alone, over richer .env files.                    *)
(***************************************************************************)
SampleLines ==
    { <<"UNTIS_SCHOOL", "=", "a">>,
      <<" ", "UNTIS_SCHOOL", " ", "=", " ", "b", "\t">>,
      <<"#", "UNTIS_SCHOOL", "=", "c">>,
      <<>>,
      <<" ", "\t">>,
      <<"UNTIS_SCHOOL", "d">>,
      <<"UNTIS_USERNAME", "=", "u", "=", "w">>,
      <<"UNTIS_USERNAME", "=">>,
      <<" ", "#", " ", "UNTIS_USERNAME", "=", "e">> }

RECURSIVE SeqsUpTo(_, _)
SeqsUpTo(S, n) ==
    IF n = 0 THEN {<<>>}
    ELSE LET shorter == SeqsUpTo(S, n - 1) IN
         shorter \cup {Append(q, x) : q \in shorter, x \in S}

EnvFiles == SeqsUpTo(SampleLines, MaxLines)

\* a .env further up the search path, never read when an earlier one exists
ShadowedFile == Candidate(<< <<"UNTIS_SCHOOL", "=", "shadow">>,
                            <<"UNTIS_USERNAME", "=", "shadow">> >>)

EnvCandidates ==
    SeqsUpTo({Missing}, MaxCandidates)
    \cup {m \o <<Candidate(f)>> \o t :
            m \in SeqsUpTo({Missing}, MaxCandidates - 1),
            f \in EnvFiles,
            t \in {<<>>, <<ShadowedFile>>}}

EnvEnvs ==
    { ( <<"UNTIS_BASE_SERVER">> :> <<"host">> @@ <<"UNTIS_PASSWORD">> :> <<"pw">> ) @@ e :
        e \in { <<>>,
                <<"UNTIS_SCHOOL">> :> <<>>,
                <<"UNTIS_SCHOOL">> :> <<"s">>,
                <<"UNTIS_USERNAME">> :> <<"n">>,
                <<"UNTIS_SCHOOL">> :> <<>> @@ <<"UNTIS_USERNAME">> :> <<"n">>,
                <<"UNTIS_SCHOOL">> :> <<"s">> @@ <<"UNTIS_USERNAME">> :> <<"n">> } }

InitEnv ==
    /\ script = "examine_timetable"
    /\ pc = "load_env"
    /\ environ \in EnvEnvs
    /\ environ0 = environ
    /\ candidates \in {c \in EnvCandidates : Len(c) <= MaxCandidates}
    /\ reqIdx = 1
    /\ creds = <<>>
    /\ fatal = NoKey
    /\ session = "none"
    /\ sessionsCreated = 0
    /\ loginCalls = 0
    /\ exitCalls = 0
    /\ blk = 1
    /\ call = 1
    /\ invoked = <<>>
    /\ out = <<>>
    /\ exc = FALSE
    /\ my_tt = <<>>
    /\ start_date = Undefined
    /\ end_date = Undefined
    /\ outcomes = <<>>
    /\ schoolyears = <<>>

NextEnv ==
    \/ LoadEnv
    \/ RequireEnv

SpecEnv == InitEnv /\ [][NextEnv]_vars

(***************************************************************************)
(* The try block of my_timetable alone, over richer timetables: the call   *)
(* is in flight and returns my_tt.                                         *)
(***************************************************************************)
SampleRecords ==
    { PeriodDict,
      PeriodObject,
      Rec("id" :> Val(<<"3">>) @@ "status" :> Val(<<"x">>) @@ "code" :> Val(<<"c">>)),
      Rec("_data" :> Val(<<"raw">>) @@ "status" :> Val(<<" ">>) @@ "activityType" :> Val(<<"x">>)
          @@ "statflags" :> Val(<<"f">>)),
      Rec("id" :> Val(<<"5">>) @@ "status" :> Val(<<>>) @@ "cancelled" :> RaisesAttr),
      Rec("id" :> Val(<<"6">>) @@ "code" :> Val(<<"c">>) @@ "substituted" :> Val(<<"y">>)
          @@ "keys" :> Val(<<"fn">>)) }

DumpScripts == {"examine_timetable", "final_webuntis_test", "test_timetable_absences"}

\* the index of the block of my_timetable in the script's body
TimetableBlock(s) == IF s = "final_webuntis_test" THEN 2 ELSE 1

InitDump ==
    /\ script \in DumpScripts
    /\ pc = "returning"
    /\ my_tt \in SeqsUpTo(SampleRecords, MaxRecords)
    /\ environ = EnvOf([i \in 1..Len(ReqKeys) |-> "set"])
    /\ environ0 = environ
    /\ candidates = <<>>
    /\ reqIdx = Len(ReqKeys)
    /\ creds = [i \in 1..Len(ReqKeys) |-> credential(i, SetValue(i))]
    /\ fatal = NoKey
    /\ session = "open"
    /\ sessionsCreated = 1
    /\ loginCalls = 1
    /\ exitCalls = 0
    /\ blk = TimetableBlock(script)
    /\ call = 1
    /\ exc = FALSE
    /\ schoolyears = <<>>
    /\ IF script = "final_webuntis_test"
       THEN /\ invoked = <<"schoolyears", "my_timetable">>
            /\ outcomes = << <<"schoolyears", "raised">> >>
            /\ out = <<Line("logged_in", "login", 0, "", <<>>, 0),
                       Line("err", "schoolyears", 0, "", <<>>, 0)>>
            /\ start_date = Today
            /\ end_date = TodayPlus7
       ELSE /\ invoked = <<"my_timetable">>
            /\ outcomes = <<>>
    /\ schoolyears = <<>>
            /\ out = <<Line("logged_in", "login", 0, "", <<>>, 0)>>
            /\ start_date = Undefined
            /\ end_date = Undefined

\* my_timetable returned my_tt; the rest of its try block runs
TimetableReturn ==
    /\ pc = "returning"
    /\ out' = out \o report(script, "my_timetable", my_tt).lines
    /\ blk' = blk + 1
    /\ call' = 1
    /\ outcomes' = Append(outcomes, <<"my_timetable", "returned">>)
    /\ pc' = "reported"
    /\ UNCHANGED <<script, environ, candidates, reqIdx, creds, fatal, session,
                   sessionsCreated, loginCalls, exitCalls, invoked, exc, my_tt,
                   start_date, end_date, environ0,
                   schoolyears>>

NextDump == TimetableReturn

SpecDump == InitDump /\ [][NextDump]_vars

\* the run under the assumption that every step that can be taken is taken:
\* execution is sequential and every remote call returns or raises
FairSpec == Spec /\ WF_vars(Next)

(***************************************************************************)
(* Properties.                                                             *)
(***************************************************************************)
\* the key is absent, or its value is empty or only whitespace
Unusable(env, key) ==
    key \notin DOMAIN env \/ \A i \in 1..Len(env[key]) : env[key][i] \in {" ", "\t"}

ConfigOver == pc \notin {"load_env", "require_env"}

NoNetwork == sessionsCreated = 0 /\ loginCalls = 0 /\ invoked = <<>> /\ session = "none"

FirstUnusable(env) ==
    CHOOSE i \in 1..Len(ReqKeys) :
        Unusable(env, ReqKeys[i]) /\ \A j \in 1..(i - 1) : ~Unusable(env, ReqKeys[j])

\* C1 as stated: for each required key that is absent, empty or only
\* whitespace after load_env, the run ends with a fatal configuration error
\* naming that key, with no session created and no login or probe attempted.
C1_NamesEachMissingKey ==
    \A i \in 1..Len(ReqKeys) :
        (ConfigOver /\ Unusable(environ, ReqKeys[i]))
            => (pc = "fatal" /\ fatal = ReqKeys[i] /\ NoNetwork)

\* C1 amended: if some required key is absent, empty or only whitespace
\* after load_env, the run ends with a fatal configuration error naming the
\* first such key in the order server, school, username, password, with no
\* session created and no login or probe attempted; and the run is fatal
\* only in that case.
C1_NamesFirstMissingKey ==
    /\ (ConfigOver /\ \E i \in 1..Len(ReqKeys) : Unusable(environ, ReqKeys[i]))
          => (pc = "fatal" /\ fatal = ReqKeys[FirstUnusable(environ)] /\ NoNetwork)
    /\ pc = "fatal" => \E i \in 1..Len(ReqKeys) : Unusable(environ, ReqKeys[i])

\* a whitespace-only school with a usable server: the error names the school
C1_Witness ==
    /\ pc = "fatal"
    /\ fatal = <<"UNTIS_SCHOOL">>
    /\ <<"UNTIS_SCHOOL">> \in DOMAIN environ
    /\ environ[<<"UNTIS_SCHOOL">>] # <<>>
    /\ Unusable(environ, <<"UNTIS_PASSWORD">>)

LoginSucceeded == \E i \in 1..Len(out) : out[i].k = "logged_in"

RunOver == pc = "done"

\* C2 as stated: in every run that attempts a login the session's release
\* routine is invoked exactly once, also when the login call itself fails.
C2_ReleasedOnceAfterAnyLogin ==
    (RunOver /\ loginCalls > 0) => exitCalls = 1

\* C2 amended: the release routine is invoked exactly once in every run in
\* which the login succeeds, whether the probes succeed or fail, and not at
\* all in a run whose login call fails.
C2_ReleasedOnceIffLoggedIn ==
    /\ exitCalls <= 1
    /\ ~LoginSucceeded => exitCalls = 0
    /\ (RunOver /\ loginCalls > 0) => exitCalls = (IF LoginSucceeded THEN 1 ELSE 0)

\* a finished run whose login failed: nothing was released
C2_Witness ==
    RunOver /\ loginCalls = 1 /\ ~LoginSucceeded /\ exitCalls = 0 /\ exc

Closed == exitCalls > 0

\* C3: after a successful login the session is closed exactly once on every
\* exit path of the with-body, and no probe is invoked once it is closed.
C3_ClosedExactlyOnce ==
    /\ [](exitCalls <= 1)
    /\ []((LoginSucceeded /\ pc \in {"handler", "done"}) => (exitCalls = 1 /\ session = "closed"))
    /\ [][Closed => (invoked' = invoked /\ exitCalls' = exitCalls)]_vars

\* the with-body was left by an unguarded exception after a failed and a
\* successful probe, and the session was closed once
C3_Witness ==
    /\ RunOver /\ exc /\ LoginSucceeded /\ exitCalls = 1
    /\ \E i, j \in 1..Len(outcomes) : outcomes[i][2] = "returned" /\ outcomes[j][1] # Statement
                                      /\ outcomes[j][2] = "raised"

BlockLeaders(s) == [i \in 1..Len(Blocks(s)) |-> Blocks(s)[i][1]]

IsLeader(p) == \E i \in 1..Len(Blocks(script)) : Blocks(script)[i][1] = p

IsPrefix(a, b) == Len(a) <= Len(b) /\ SubSeq(b, 1, Len(a)) = a

StatementRaised == \E i \in 1..Len(outcomes) : outcomes[i][1] = Statement

\* the probes whose success line is the count of the returned records
CountProbes == {"my_timetable", "timetable_extended", "substitutions", "klassen", "subjects",
                "rooms", "holidays", "timegrid_units", "timetable_with_absences", "exams",
                "teachers", "timetable", "own_absences", "absences", "own_exams"}

\* when the probe a line is about was invoked: 0 for the login line, the
\* index in invoked for a probe, past every probe for the closing lines
InvokedAt(p) ==
    IF p = "login" THEN 0
    ELSE IF \E i \in 1..Len(invoked) : invoked[i] = p
    THEN CHOOSE i \in 1..Len(invoked) : invoked[i] = p
    ELSE Len(invoked) + 1

\* C4: after a successful login the try blocks of the body are entered
\* exactly once each and in order, whatever the earlier probes did: a probe
\* that raises gets an error line, a probe that returns gets its count line,
\* the lines come in the order of the calls, no call is sent twice, and unless a statement outside the try blocks
\* raises, the run ends with every block's probe invoked.
C4_EveryProbeOnceInOrder ==
    /\ IsPrefix(SelectSeq(invoked, IsLeader), BlockLeaders(script))
    /\ \A i, j \in 1..Len(invoked) : i # j => invoked[i] # invoked[j]
    /\ \A i \in 1..Len(invoked) :
          ~IsLeader(invoked[i]) => (i > 1 /\ i - 1 <= Len(outcomes)
                                    /\ outcomes[i - 1] = <<"students", "returned">>)
    /\ \A i \in 1..Len(outcomes) :
          /\ (outcomes[i][2] = "raised" /\ outcomes[i][1] # Statement)
                => \E n \in 1..Len(out) : /\ out[n].probe = outcomes[i][1]
                                          /\ out[n].k \in {"err", "unavailable"}
          /\ (outcomes[i][2] = "returned" /\ outcomes[i][1] \in CountProbes)
                => \E n \in 1..Len(out) : out[n].probe = outcomes[i][1] /\ out[n].k = "count"
    /\ \A n \in 1..(Len(out) - 1) : InvokedAt(out[n].probe) <= InvokedAt(out[n + 1].probe)
    /\ (pc \in {"exit", "handler", "done"} /\ LoginSucceeded /\ ~StatementRaised)
          => SelectSeq(invoked, IsLeader) = BlockLeaders(script)

\* test_python_webuntis ran to its end: the first probe returned, the second
\* raised, and all nine probes were invoked
C4_Witness ==
    /\ RunOver /\ ~exc /\ script = "test_python_webuntis"
    /\ Len(outcomes) = 9
    /\ outcomes[1] = <<"klassen", "returned">>
    /\ outcomes[2] = <<"subjects", "raised">>
    /\ invoked = BlockLeaders(script)

Phase ==
    IF pc \in {"handler", "done"} THEN "Disconnected"
    ELSE IF pc = "probing" THEN "Probing"
    ELSE IF pc \in {"body", "exit"} THEN (IF invoked = <<>> THEN "Connected" ELSE "Reported")
    ELSE "NotConnected"

PhaseEdges ==
    { <<"NotConnected", "NotConnected">>, <<"NotConnected", "Connected">>,
      <<"NotConnected", "Disconnected">>, <<"Connected", "Connected">>,
      <<"Connected", "Probing">>, <<"Connected", "Disconnected">>,
      <<"Probing", "Reported">>, <<"Reported", "Reported">>, <<"Reported", "Probing">>,
      <<"Reported", "Disconnected">>, <<"Disconnected", "Disconnected">> }

\* C5: the run follows NotConnected -> Connected -> (Probing -> Reported)*
\* -> Disconnected; at most one session is opened, no probe precedes a
\* successful login, a failed login ends the run with no probe invoked, and
\* nothing is logged in or probed once Disconnected is reached.
C5_StateMachine ==
    /\ [](sessionsCreated <= 1 /\ loginCalls <= 1)
    /\ [](invoked # <<>> => LoginSucceeded)
    /\ [](Phase \in {"Connected", "Probing", "Reported"} => LoginSucceeded)
    /\ []((RunOver /\ ~LoginSucceeded) => (invoked = <<>> /\ outcomes = <<>>))
    /\ [][(<<Phase, Phase'>> \in PhaseEdges)]_vars
    /\ [][Phase = "Disconnected" =>
            (Phase' = "Disconnected" /\ invoked' = invoked /\ loginCalls' = loginCalls
             /\ sessionsCreated' = sessionsCreated)]_vars

\* a run whose login failed is over, with one session built and no probe
C5_Witness ==
    RunOver /\ ~LoginSucceeded /\ sessionsCreated = 1 /\ loginCalls = 1 /\ invoked = <<>>

\* C9: every run that passes configuration loading reaches the end of the
\* run, with the session disconnected, whichever probes succeed or fail.
C9_ReachesDisconnected == (pc = "login") ~> (pc = "done" /\ Phase = "Disconnected")

\* a run that sent all its probes, some of which raised, is over
C9_Witness ==
    /\ RunOver /\ LoginSucceeded /\ ~StatementRaised
    /\ Len(invoked) = Len(Blocks(script))
    /\ \E i \in 1..Len(outcomes) : outcomes[i][2] = "raised"

\* the lines of the .env that load_env reads: the first candidate that exists
FileRead ==
    LET found == {i \in 1..Len(candidates) : candidates[i].exists} IN
    IF found = {} THEN <<>>
    ELSE candidates[CHOOSE i \in found : \A j \in found : i <= j].lines

Blank(text) == \A i \in 1..Len(text) : text[i] \in {" ", "\t"}

\* line is a KEY=VALUE line for key: not a comment, and key is what stands
\* before its first "=", surrounding whitespace apart
DefinesKey(line, key) ==
    \E i \in 1..Len(line) :
        /\ line[i] = "="
        /\ \A j \in 1..(i - 1) : line[j] # "="
        /\ \E a, b \in 0..i :
              /\ a < b /\ b <= i
              /\ Blank(SubSeq(line, 1, a)) /\ Blank(SubSeq(line, b, i - 1))
              /\ SubSeq(line, a + 1, b - 1) = key
              /\ key # <<>> /\ key[1] \notin {" ", "\t", "#"} /\ key[Len(key)] \notin {" ", "\t"}

\* the text after the first "=" of line, surrounding whitespace apart
ValueOf(line) ==
    LET i == CHOOSE n \in 1..Len(line) : line[n] = "=" /\ \A j \in 1..(n - 1) : line[j] # "="
        rest == SubSeq(line, i + 1, Len(line))
        inner == {<<a, b>> \in (0..Len(rest)) \X (1..(Len(rest) + 1)) :
                    /\ a < b
                    /\ Blank(SubSeq(rest, 1, a)) /\ Blank(SubSeq(rest, b, Len(rest)))
                    /\ (b - a > 1 => (rest[a + 1] \notin {" ", "\t"} /\ rest[b - 1] \notin {" ", "\t"}))
                    /\ (b - a = 1 => Blank(rest))}
        ab == CHOOSE x \in inner : \A y \in inner : x[2] - x[1] <= y[2] - y[1]
    IN SubSeq(rest, ab[1] + 1, ab[2] - 1)

FileKeys == {<<"UNTIS_SCHOOL">>, <<"UNTIS_USERNAME">>}

\* C6: load_env leaves every variable that was already set as it was, and
\* gives a key not yet set the value of the first KEY=VALUE line of the
\* file that defines it; later lines for the key, blank lines, comments and
\* lines without "=" change nothing.
C6_FirstMatchWinsNoOverride ==
    pc # "load_env" =>
        /\ \A k \in DOMAIN environ0 : k \in DOMAIN environ /\ environ[k] = environ0[k]
        /\ \A k \in DOMAIN environ \ DOMAIN environ0 :
              \E i \in 1..Len(FileRead) :
                  /\ DefinesKey(FileRead[i], k)
                  /\ environ[k] = ValueOf(FileRead[i])
                  /\ \A j \in 1..(i - 1) : ~DefinesKey(FileRead[j], k)
        /\ \A k \in FileKeys :
              (\E i \in 1..Len(FileRead) : DefinesKey(FileRead[i], k)) => k \in DOMAIN environ

\* the file defines the school twice with different values, the school was
\* not set before, and the user name, set before, is defined by the file too
C6_Witness ==
    /\ pc # "load_env"
    /\ <<"UNTIS_SCHOOL">> \notin DOMAIN environ0
    /\ <<"UNTIS_USERNAME">> \in DOMAIN environ0
    /\ \E i, j \in 1..Len(FileRead) :
          /\ i < j
          /\ DefinesKey(FileRead[i], <<"UNTIS_SCHOOL">>)
          /\ DefinesKey(FileRead[j], <<"UNTIS_SCHOOL">>)
          /\ ValueOf(FileRead[i]) # ValueOf(FileRead[j])
          /\ environ[<<"UNTIS_SCHOOL">>] = ValueOf(FileRead[i])

Reported == pc = "reported"

Lines(k) == SelectSeq(out, LAMBDA l : l.k = k)

Dumped == Min(Len(my_tt), 3)

\* C7: in examine_timetable, for a timetable probe that returns n records
\* the reported count is n and the field dump covers the first min(n, 3)
\* records, no more, in the order returned.
C7_CountAndFirstThree ==
    Reported =>
        /\ Len(Lines("count")) = 1 /\ Lines("count")[1].n = Len(my_tt)
        /\ \A n \in 1..Len(out) :
              out[n].k \in {"period", "attr", "cannot_access"} =>
                  \E c \in 1..(n - 1) : out[c].k = "count"
        /\ script = "examine_timetable" =>
              /\ Len(Lines("period")) = Dumped
              /\ \A i \in 1..Dumped : Lines("period")[i].rec = i
              /\ \A n \in 1..Len(out) :
                    out[n].k \in {"attr", "cannot_access"} =>
                        /\ out[n].rec \in 1..Dumped
                        /\ \E h \in 1..(n - 1) :
                              /\ out[h].k = "period" /\ out[h].rec = out[n].rec
                              /\ \A m \in (h + 1)..n : out[m].k # "period"
                        /\ out[n].k = "attr" =>
                              my_tt[out[n].rec][out[n].attr] = Val(out[n].val)
              /\ \A i \in 1..Dumped :
                    \A a \in FieldNames \ {"_data"} :
                        my_tt[i][a].kind # "absent" =>
                            \E n \in 1..Len(out) : /\ out[n].k \in {"attr", "cannot_access"}
                                                   /\ out[n].rec = i /\ out[n].attr = a

\* examine_timetable got four records and dumped three
C7_Witness ==
    /\ Reported /\ script = "examine_timetable"
    /\ Len(my_tt) = 4 /\ Lines("count")[1].n = 4 /\ Len(Lines("period")) = 3
    /\ my_tt[3] # my_tt[4]

\* C8 as stated: in the dump step of each script, every expected field that
\* is missing or whose access raises is reported as inaccessible, the dump
\* goes on, and no exception leaves the dump step.
C8_InaccessibleFieldsReported ==
    (Reported /\ my_tt # <<>>) =>
        /\ script = "examine_timetable" =>
              \A i \in 1..Dumped :
                  \A a \in FieldNames \ {"_data"} :
                      my_tt[i][a].kind \in {"raises", "raises_attr"} =>
                          \E n \in 1..Len(out) : /\ out[n].k = "cannot_access"
                                                 /\ out[n].rec = i /\ out[n].attr = a
        /\ script = "final_webuntis_test" =>
              \A n \in 1..Len(FinalAttrs) :
                  LET a == FinalAttrs[n] IN
                  IF my_tt[1][a].kind = "value"
                  THEN \E m \in 1..Len(out) : /\ out[m].k = "attr" /\ out[m].attr = a
                                              /\ out[m].val = my_tt[1][a].val
                  ELSE \E m \in 1..Len(out) : out[m].k = "cannot_access" /\ out[m].attr = a
        /\ script = "test_timetable_absences" =>
              /\ \A n \in 1..Len(out) : ~(out[n].k = "err" /\ out[n].probe = "my_timetable")
              /\ my_tt[1]["keys"].kind # "value" => Lines("cannot_access") # <<>>

NonBlank(p, a) == p[a].kind = "value" /\ ~Blank(p[a].val)

NonEmpty(p, a) == p[a].kind = "value" /\ p[a].val # <<>>

Range(q) == {q[i] : i \in 1..Len(q)}

IsFinal == script = "final_webuntis_test"

SchoolyearsReturned ==
    \E i \in 1..Len(outcomes) : outcomes[i] = <<"schoolyears", "returned">>

\* positions of the years that schoolyears() reported as current
CurrentYears ==
    {i \in 1..Len(schoolyears) :
        /\ schoolyears[i]["is_current"].kind = "value"
        /\ schoolyears[i]["is_current"].val # <<>>}

FirstCurrent == CHOOSE i \in CurrentYears : \A j \in CurrentYears : i <= j

\* the field is present and is a date in the form %Y-%m-%d
Parses(y, key) ==
    /\ y[key].kind = "value"
    /\ Len(y[key].val) = 1
    /\ y[key].val[1] \in ValidDateWords

\* schoolyears succeeded, reported a current year, and both its dates parse
SchoolYearKnown ==
    /\ SchoolyearsReturned
    /\ CurrentYears # {}
    /\ Parses(schoolyears[FirstCurrent], "start_date")
    /\ Parses(schoolyears[FirstCurrent], "end_date")

TimetableInvoked == \E i \in 1..Len(invoked) : invoked[i] = "my_timetable"

\* C11: in final_webuntis_test, whenever my_timetable is invoked both
\* start_date and end_date are defined: they are the current school year's
\* start and end when schoolyears succeeded, reported a current year and both
\* dates parsed, and exactly today and today + 7 days in every other case
\* (schoolyears raised, no current year, a missing key or an unparsable date,
\* also when start_date had been assigned before the failure); and after
\* every outcome of the schoolyears block the timetable probe is still
\* invoked: a run that logged in and ended without an error outside the try
\* blocks has invoked it
C11_WindowDefinedAtTimetable ==
    IsFinal =>
        /\ TimetableInvoked =>
              /\ start_date # Undefined
              /\ end_date # Undefined
              /\ IF SchoolYearKnown
                 THEN /\ start_date = schoolyears[FirstCurrent]["start_date"].val[1]
                      /\ end_date = schoolyears[FirstCurrent]["end_date"].val[1]
                 ELSE /\ start_date = Today
                      /\ end_date = TodayPlus7
        /\ (RunOver /\ LoginSucceeded /\ ~StatementRaised) => TimetableInvoked

\* my_timetable was invoked after the end date of the current year failed to
\* parse although its start date had parsed, and the window is today to
\* today + 7 days
C11_Witness ==
    /\ IsFinal
    /\ TimetableInvoked
    /\ schoolyears = <<YearBadEnd>>
    /\ Parses(schoolyears[1], "start_date")
    /\ ~Parses(schoolyears[1], "end_date")
    /\ start_date = Today
    /\ end_date = TodayPlus7

====
